---- MODULE Spec2Model ----
(***************************************************************************)
(* A model of ipcraft's HDL front end: the two-tier VHDL and Verilog       *)
(* parsers (parse_text), the bus interface detector (detect,               *)
(* classify_clocks_resets) and the pipeline of IpYamlGenerator.generate.   *)
(* Port names, prefixes and logical signal names are sequences of          *)
(* one-character strings, so that the regular expressions of the source    *)
(* are computed character by character.                                    *)
(***************************************************************************)
EXTENDS Integers, Sequences, FiniteSets, TLC

VARIABLES
    pc,               \* position in IpYamlGenerator.generate
    ports,            \* ip_core.ports: the parsed module's port list
    bus_definitions,  \* BusInterfaceDetector.bus_definitions, in declaration order
    prefix_groups,    \* detect's local prefix_groups (insertion-ordered dict)
    bus_interfaces,   \* the list detect returns
    match_log,        \* the (prefix, key) pairs that passed _match_bus_type's ratio test
    clocks,           \* classify_clocks_resets' first result
    resets,           \* classify_clocks_resets' second result
    bus_port_names,   \* _get_bus_port_names' result
    user_ports,       \* generate's user_ports after filtering
    lang,             \* which parser parse_text belongs to
    text,             \* the HDL text handed to parse_text (its parse-relevant shape)
    ppc,              \* position in parse_text
    tiers,            \* the parser tiers run so far, in order, with their outcome
    result,           \* parse_text's result: the module record or None
    raised,           \* the exception propagating out of parse_text, or NoExc
    library_instance, \* bus_library._library_instance: NoInstance or an instance
    file_reads,       \* how many times the process has opened the definitions file
    library_loads,    \* how many BusLibrary instances BusLibrary.load has built
    tpc,              \* each thread's position in get_bus_library
    loaded,           \* each thread's BusLibrary.load() result, not yet assigned
    returned,         \* each thread's get_bus_library results, in call order
    calls,            \* how many calls each thread has started
    reg_class,        \* the register's class: Register or AsyncRegister
    fields,           \* _RegisterBase._fields, in insertion order
    memory,           \* the word the bus holds at the register's offset
    bus_writes,       \* the data of every write_word the bus has received, in order
    rtask,            \* each call on the register: its arguments, locals and position
    reg_entries,      \* _parse_registers' data: the entries of a registers list
    reg_idx,          \* _parse_registers' loop index (from 1), or 0 outside the loop
    current_offset,   \* _parse_registers' running offset
    registers,        \* _parse_registers' result list
    first_parse       \* the module of the first parse, once its header is regenerated

libraryVars == <<library_instance, file_reads, library_loads, tpc, loaded, returned, calls>>

registerVars == <<reg_class, fields, memory, bus_writes, rtask>>

offsetVars == <<reg_entries, reg_idx, current_offset, registers>>

roundVars == <<first_parse>>

restVars == <<libraryVars, registerVars, offsetVars, roundVars>>

vars == <<pc, ports, bus_definitions, prefix_groups, bus_interfaces, match_log, clocks,
          resets, bus_port_names, user_ports, lang, text, ppc, tiers, result, raised,
          restVars>>

detectVars == <<pc, ports, bus_definitions, prefix_groups, bus_interfaces, match_log,
                clocks, resets, bus_port_names, user_ports>>

parseVars == <<lang, text, ppc, tiers, result, raised>>

(* The module-level _library_instance starts as None; instances are         *)
(* numbered from 1 in the order BusLibrary.load builds them.               *)
NoInstance == 0

(* The number of threads of the process and of calls each of them makes.   *)
MaxThreads == 2
MaxCalls == 2

Threads == 1..MaxThreads

(* The library state of a process in which nothing touches the library.    *)
LibraryIdle ==
    /\ library_instance = NoInstance
    /\ file_reads = 0
    /\ library_loads = 0
    /\ tpc = [t \in Threads |-> "done"]
    /\ loaded = [t \in Threads |-> NoInstance]
    /\ returned = [t \in Threads |-> <<>>]
    /\ calls = [t \in Threads |-> 0]

(* The number of calls in flight on one AsyncRegister, and the largest     *)
(* value a caller passes for a field.                                      *)
MaxTasks == 2
MaxFieldValue == 2

(* No register has been constructed.                                       *)
RegisterIdle ==
    /\ reg_class = "none"
    /\ fields = <<>>
    /\ memory = {}
    /\ bus_writes = <<>>
    /\ rtask = <<>>

(* The number of entries of a registers list.                              *)
MaxEntries == 3

(* _parse_registers has not been called.                                   *)
OffsetIdle ==
    /\ reg_entries = <<>>
    /\ reg_idx = 0
    /\ current_offset = 0
    /\ registers = <<>>

----------------------------------------------------------------------------
(* Strings as sequences of characters.                                     *)

Min(S) == CHOOSE x \in S : \A y \in S : x <= y

UpperLetters == <<"A","B","C","D","E","F","G","H","I","J","K","L","M",
                  "N","O","P","Q","R","S","T","U","V","W","X","Y","Z">>

LowerLetters == <<"a","b","c","d","e","f","g","h","i","j","k","l","m",
                  "n","o","p","q","r","s","t","u","v","w","x","y","z">>

Digits == {"0","1","2","3","4","5","6","7","8","9"}

\* the lower-case letter of each upper-case letter
ToLower == [c \in {UpperLetters[k] : k \in 1..26} |->
              LowerLetters[CHOOSE k \in 1..26 : UpperLetters[k] = c]]

\* the upper-case letter of each lower-case letter
ToUpper == [c \in {LowerLetters[k] : k \in 1..26} |->
              UpperLetters[CHOOSE k \in 1..26 : LowerLetters[k] = c]]

WordChars == DOMAIN ToLower \cup DOMAIN ToUpper \cup Digits \cup {"_"}

LowerChar(c) == IF c \in DOMAIN ToLower THEN ToLower[c] ELSE c

UpperChar(c) == IF c \in DOMAIN ToUpper THEN ToUpper[c] ELSE c

\* str.lower()
Lower(s) == [i \in 1..Len(s) |-> LowerChar(s[i])]

\* str.upper()
Upper(s) == [i \in 1..Len(s) |-> UpperChar(s[i])]

\* str.startswith(p)
StartsWith(s, p) == Len(p) <= Len(s) /\ SubSeq(s, 1, Len(p)) = p

\* re.search(p + "$", s) for a literal p
EndsWith(s, p) == Len(p) <= Len(s) /\ SubSeq(s, Len(s) - Len(p) + 1, Len(s)) = p

\* p in s
Contains(s, p) == \E i \in 1..(Len(s) - Len(p) + 1) : SubSeq(s, i, i + Len(p) - 1) = p

\* s[n:]
DropFirst(s, n) == SubSeq(s, n + 1, Len(s))

\* the regular expression class \w
IsWordChar(c) == c \in WordChars

\* str.strip("_")
StripUnderscores(s) ==
    LET keep == {i \in 1..Len(s) : s[i] # "_"}
    IN  IF keep = {} THEN <<>>
        ELSE SubSeq(s, Min(keep), CHOOSE i \in keep : \A j \in keep : j <= i)

----------------------------------------------------------------------------
(* Literals of the source.                                                 *)

DirIn == "in"

DirOut == "out"

DirInout == "inout"

PortDirection == {DirIn, DirOut, DirInout}

NoMatch == <<>>

----------------------------------------------------------------------------
(* classify_clocks_resets: the name patterns and the classification loop.  *)

\* re.search(pattern, name_lower) for the pattern shapes the classifier uses:
\*   opt_start  ^i?_?LIT      end  LIT$      exact  ^LIT$
\*   exact_optn ^LITn?$       start ^LIT.*   start_optn_us  ^LITn?_.*
SearchPattern(pat, s) ==
    CASE pat.kind = "opt_start" ->
            \/ StartsWith(s, pat.lit)
            \/ StartsWith(s, <<"i">> \o pat.lit)
            \/ StartsWith(s, <<"_">> \o pat.lit)
            \/ StartsWith(s, <<"i","_">> \o pat.lit)
      [] pat.kind = "end" -> EndsWith(s, pat.lit)
      [] pat.kind = "exact" -> s = pat.lit
      [] pat.kind = "exact_optn" -> s = pat.lit \/ s = pat.lit \o <<"n">>
      [] pat.kind = "start" -> StartsWith(s, pat.lit)
      [] pat.kind = "start_optn_us" ->
            \/ StartsWith(s, pat.lit \o <<"_">>)
            \/ StartsWith(s, pat.lit \o <<"n","_">>)

clock_patterns ==
    << [kind |-> "opt_start", lit |-> <<"c","l","k">>],
       [kind |-> "opt_start", lit |-> <<"c","l","o","c","k">>],
       [kind |-> "end",       lit |-> <<"_","c","l","k">>],
       [kind |-> "end",       lit |-> <<"_","c","l","o","c","k">>],
       [kind |-> "exact",     lit |-> <<"a","c","l","k">>],
       [kind |-> "start",     lit |-> <<"i","_","c","l","k","_">>] >>

reset_patterns ==
    << [kind |-> "opt_start",     lit |-> <<"r","s","t">>],
       [kind |-> "opt_start",     lit |-> <<"r","e","s","e","t">>],
       [kind |-> "end",           lit |-> <<"_","r","s","t">>],
       [kind |-> "end",           lit |-> <<"_","r","e","s","e","t">>],
       [kind |-> "exact_optn",    lit |-> <<"a","r","e","s","e","t">>],
       [kind |-> "start_optn_us", lit |-> <<"i","_","r","s","t","_">>] >>

ACTIVE_LOW == "activeLow"

ACTIVE_HIGH == "activeHigh"

\* the inner "for pattern in clock_patterns: if re.search(...): ...; break"
IsClockName(name_lower) ==
    \E k \in 1..Len(clock_patterns) : SearchPattern(clock_patterns[k], name_lower)

IsResetName(name_lower) ==
    \E k \in 1..Len(reset_patterns) : SearchPattern(reset_patterns[k], name_lower)

ResetPolarity(name_lower) ==
    IF Contains(name_lower, <<"_","n">>) \/ Contains(name_lower, <<"r","e","s","e","t","n">>)
    THEN ACTIVE_LOW ELSE ACTIVE_HIGH

\* the clocks list: one Clock per input port whose lowered name matches a clock pattern
ClassifyClocks(ps) ==
    LET hit(i) == ps[i].direction = DirIn /\ IsClockName(Lower(ps[i].name))
        RECURSIVE loop(_)
        loop(i) == IF i > Len(ps) THEN <<>>
                   ELSE (IF hit(i) THEN <<[name |-> ps[i].name]>> ELSE <<>>) \o loop(i + 1)
    IN  loop(1)

\* the resets list: one Reset per input port whose lowered name matches a reset pattern
ClassifyResets(ps) ==
    LET hit(i) == ps[i].direction = DirIn /\ IsResetName(Lower(ps[i].name))
        RECURSIVE loop(_)
        loop(i) == IF i > Len(ps) THEN <<>>
                   ELSE (IF hit(i)
                         THEN <<[name |-> ps[i].name,
                                 polarity |-> ResetPolarity(Lower(ps[i].name))]>>
                         ELSE <<>>) \o loop(i + 1)
    IN  loop(1)

----------------------------------------------------------------------------
(* _group_ports_by_prefix.                                                 *)

\* the known bus prefixes: kind "axi" is ^(HEAD\w*?)(?:aw|ar|w|r|b),
\* kind "axis" is ^(HEAD\w*?)t, kind "fixed" is ^(HEAD)
prefix_patterns ==
    << [kind |-> "axi",   head |-> <<"s","_","a","x","i","_">>],
       [kind |-> "axi",   head |-> <<"m","_","a","x","i","_">>],
       [kind |-> "axis",  head |-> <<"s","_","a","x","i","s","_">>],
       [kind |-> "axis",  head |-> <<"m","_","a","x","i","s","_">>],
       [kind |-> "fixed", head |-> <<"a","v","s","_">>],
       [kind |-> "fixed", head |-> <<"a","v","m","_">>] >>

\* whether the text that follows the lazy \w*? matches at position i of s
AltAt(kind, s, i) ==
    CASE kind = "axi" ->
            /\ i <= Len(s)
            /\ \/ s[i] \in {"w", "r", "b"}
               \/ s[i] = "a" /\ i + 1 <= Len(s) /\ s[i + 1] \in {"w", "r"}
      [] kind = "axis" -> i <= Len(s) /\ s[i] = "t"
      [] OTHER -> TRUE

\* a pattern whose \w* is greedy: it takes the most word characters it can
PatternPrefix_Greedy(pat, s) ==
    IF ~StartsWith(s, pat.head) THEN NoMatch
    ELSE IF pat.kind = "fixed" THEN pat.head
    ELSE LET h  == Len(pat.head)
             ks == {k \in 0..(Len(s) - h) :
                       /\ AltAt(pat.kind, s, h + k + 1)
                       /\ \A j \in 1..k : IsWordChar(s[h + j])}
         IN  IF ks = {} THEN NoMatch
             ELSE SubSeq(s, 1, h + (CHOOSE k \in ks : \A j \in ks : j <= k))

\* re.match(pattern, name_lower).group(1), or NoMatch: the lazy \w*? takes the
\* fewest word characters after which the rest of the pattern matches
PatternPrefix(pat, s) ==
    IF ~StartsWith(s, pat.head) THEN NoMatch
    ELSE IF pat.kind = "fixed" THEN pat.head
    ELSE LET h  == Len(pat.head)
             ks == {k \in 0..(Len(s) - h) :
                       /\ AltAt(pat.kind, s, h + k + 1)
                       /\ \A j \in 1..k : IsWordChar(s[h + j])}
         IN  IF ks = {} THEN NoMatch ELSE SubSeq(s, 1, h + Min(ks))

\* "_" in name_lower, i.e. len(name_lower.split("_")) >= 2
HasTwoParts(s) == \E i \in 1..Len(s) : s[i] = "_"

\* f"{parts[0]}_{parts[1]}_" for parts = name_lower.split("_")
PotentialPrefix(s) ==
    LET us    == {i \in 1..Len(s) : s[i] = "_"}
        first == Min(us)
        rest  == {i \in us : i > first}
    IN  IF rest = {} THEN s \o <<"_">> ELSE SubSeq(s, 1, Min(rest))

\* the key of the group port i is appended to, or NoMatch when it joins none
GroupKey(ps, i) ==
    LET name_lower == Lower(ps[i].name)
        hits == {k \in 1..Len(prefix_patterns) :
                    PatternPrefix(prefix_patterns[k], name_lower) # NoMatch}
    IN  IF hits # {} THEN PatternPrefix(prefix_patterns[Min(hits)], name_lower)
        ELSE IF /\ HasTwoParts(name_lower)
                /\ \E j \in 1..Len(ps) :
                      /\ ps[j] # ps[i]
                      /\ StartsWith(Lower(ps[j].name), PotentialPrefix(name_lower))
             THEN PotentialPrefix(name_lower)
             ELSE NoMatch

\* groups[prefix].append(port) on an insertion-ordered dict, kept as a
\* sequence of [prefix, ports]
AppendToGroup(groups, prefix, port) ==
    IF \E g \in 1..Len(groups) : groups[g].prefix = prefix
    THEN [g \in 1..Len(groups) |->
             IF groups[g].prefix = prefix
             THEN [groups[g] EXCEPT !.ports = Append(@, port)]
             ELSE groups[g]]
    ELSE Append(groups, [prefix |-> prefix, ports |-> <<port>>])

group_ports_by_prefix(ps) ==
    LET RECURSIVE loop(_, _)
        loop(i, groups) ==
            IF i > Len(ps) THEN groups
            ELSE IF GroupKey(ps, i) = NoMatch THEN loop(i + 1, groups)
            ELSE loop(i + 1, AppendToGroup(groups, GroupKey(ps, i), ps[i]))
    IN  loop(1, <<>>)

----------------------------------------------------------------------------
(* _match_bus_type and _detect_bus_mode.                                   *)

MASTER == "master"

SLAVE == "slave"

SOURCE == "source"

SINK == "sink"

NoBus == [type |-> "None"]

\* port.name.lower()[len(prefix):].upper()
Suffix(prefix, port) == Upper(DropFirst(Lower(port.name), Len(prefix)))

\* the keys of suffix_map
SuffixKeys(prefix, gports) == {Suffix(prefix, gports[i]) : i \in 1..Len(gports)}

\* suffix_map[key]: a later port of the group overwrites an earlier one
SuffixPort(prefix, gports, key) ==
    LET is == {i \in 1..Len(gports) : Suffix(prefix, gports[i]) = key}
    IN  gports[CHOOSE i \in is : \A j \in is : j <= i]

\* [p["name"] for p in bus_def["ports"] if p.get("presence") == presence]
PortsWithPresence(bus_def, presence) ==
    LET Test(p) == p.presence = presence
        sel == SelectSeq(bus_def.ports, Test)
    IN  [i \in 1..Len(sel) |-> sel[i].name]

\* sum(1 for p in names if p in suffix_map)
CountMatched(names, keys) == Cardinality({i \in 1..Len(names) : names[i] \in keys})

required_matched(bus_def, prefix, gports) ==
    CountMatched(PortsWithPresence(bus_def, "required"), SuffixKeys(prefix, gports))

optional_matched(bus_def, prefix, gports) ==
    CountMatched(PortsWithPresence(bus_def, "optional"), SuffixKeys(prefix, gports))

total_required(bus_def) == Len(PortsWithPresence(bus_def, "required"))

\* the 0.7 of "required_ratio >= 0.7", in tenths
ThresholdTenths == 7

\* the 10 of "score = required_matched * 10 + optional_matched"
RequiredWeight == 10

\* a looser ratio test: half of the required signals are enough
RatioAccepted_Half(m, n) == n > 0 /\ 2 * m >= n

\* a stricter ratio test: every required signal must be matched
RatioAccepted_All(m, n) == n > 0 /\ m = n

\* a threshold test that passes the ratios at or below the threshold
RatioAcceptedAt_Below(t, m, n) == IF n > 0 THEN 10 * m <= t * n ELSE 0 <= t

\* required_ratio >= t / 10 for the threshold written as the literal 0.7 in the
\* source, where required_ratio is required_matched / len(required_ports) and 0
\* when the definition has no required port
RatioAcceptedAt(t, m, n) == IF n > 0 THEN 10 * m >= t * n ELSE 0 >= t

\* required_ratio >= 0.7, where required_ratio is required_matched / len(required_ports)
\* and 0 when the definition has no required port; m / n >= 7 / 10 iff 10 m >= 7 n
RatioAccepted(m, n) == n > 0 /\ 10 * m >= ThresholdTenths * n

\* score = required_matched * 10 + optional_matched
Score(bus_def, prefix, gports) ==
    required_matched(bus_def, prefix, gports) * RequiredWeight
        + optional_matched(bus_def, prefix, gports)

\* whether the definition passes the "if required_ratio >= 0.7" test for the group
Accepted(bus_def, prefix, gports) ==
    RatioAccepted(required_matched(bus_def, prefix, gports), total_required(bus_def))

\* "axis" in bus_type_name or "avalon_st" in bus_type_name
IsStreaming(bus_def) ==
    \/ Contains(Lower(bus_def.busTypeName), <<"a","x","i","s">>)
    \/ Contains(Lower(bus_def.busTypeName), <<"a","v","a","l","o","n","_","s","t">>)

\* port_def.get("direction", default)
ExpectedDir(port_def, default) ==
    IF port_def.direction = "none" THEN default ELSE port_def.direction

StreamSignals == {<<"T","D","A","T","A">>, <<"D","A","T","A">>}

MemorySignals == {<<"A","W","R","E","A","D","Y">>,
                  <<"A","R","R","E","A","D","Y">>,
                  <<"R","E","A","D","D","A","T","A">>}

\* the streaming loop with the other default: sink when no entry decides
StreamMode_DefaultSink(bus_def, prefix, gports) ==
    LET keys == SuffixKeys(prefix, gports)
        RECURSIVE loop(_)
        loop(i) ==
            IF i > Len(bus_def.ports) THEN SINK
            ELSE LET port_def == bus_def.ports[i]
                     nm == Upper(port_def.name)
                 IN  IF nm \in StreamSignals /\ nm \in keys
                     THEN LET actual == SuffixPort(prefix, gports, nm).direction
                              expected_dir == ExpectedDir(port_def, DirOut)
                          IN  IF expected_dir = DirOut /\ actual = DirOut THEN SOURCE
                              ELSE IF expected_dir = DirOut /\ actual = DirIn THEN SINK
                              ELSE loop(i + 1)
                     ELSE loop(i + 1)
    IN  loop(1)

\* the streaming loop: the first TDATA/DATA entry that is present in the group with
\* expected direction out and actual direction out or in decides; else the default
StreamMode(bus_def, prefix, gports) ==
    LET keys == SuffixKeys(prefix, gports)
        RECURSIVE loop(_)
        loop(i) ==
            IF i > Len(bus_def.ports) THEN SOURCE
            ELSE LET port_def == bus_def.ports[i]
                     nm == Upper(port_def.name)
                 IN  IF nm \in StreamSignals /\ nm \in keys
                     THEN LET actual == SuffixPort(prefix, gports, nm).direction
                              expected_dir == ExpectedDir(port_def, DirOut)
                          IN  IF expected_dir = DirOut /\ actual = DirOut THEN SOURCE
                              ELSE IF expected_dir = DirOut /\ actual = DirIn THEN SINK
                              ELSE loop(i + 1)
                     ELSE loop(i + 1)
    IN  loop(1)

\* the memory-mapped loop: the first AWREADY/ARREADY/READDATA entry that is present
\* with expected direction in and actual direction out or in decides; else the default
MemoryMode(bus_def, prefix, gports) ==
    LET keys == SuffixKeys(prefix, gports)
        RECURSIVE loop(_)
        loop(i) ==
            IF i > Len(bus_def.ports) THEN SLAVE
            ELSE LET port_def == bus_def.ports[i]
                     nm == Upper(port_def.name)
                 IN  IF nm \in MemorySignals /\ nm \in keys
                     THEN LET actual == SuffixPort(prefix, gports, nm).direction
                              expected_dir == ExpectedDir(port_def, DirIn)
                          IN  IF expected_dir = DirIn /\ actual = DirOut THEN SLAVE
                              ELSE IF expected_dir = DirIn /\ actual = DirIn THEN MASTER
                              ELSE loop(i + 1)
                     ELSE loop(i + 1)
    IN  loop(1)

detect_bus_mode(bus_def, prefix, gports) ==
    IF IsStreaming(bus_def)
    THEN StreamMode(bus_def, prefix, gports)
    ELSE MemoryMode(bus_def, prefix, gports)

\* a replacement rule under which an equal score also replaces the best match
Improves_OrEqual(score, best_score) == score >= best_score

\* whether definition k replaces the best match so far: "if score > best_score"
Improves(score, best_score) == score > best_score

\* the loop over self.bus_definitions.items(), carrying best_score and best_match
match_bus_type(prefix, gports, defs) ==
    LET RECURSIVE loop(_, _, _)
        loop(k, best_score, best_match) ==
            IF k > Len(defs) THEN best_match
            ELSE IF /\ Accepted(defs[k], prefix, gports)
                    /\ Improves(Score(defs[k], prefix, gports), best_score)
                 THEN loop(k + 1, Score(defs[k], prefix, gports),
                           [name |-> Upper(StripUnderscores(prefix)),
                            type |-> defs[k].key,
                            mode |-> detect_bus_mode(defs[k], prefix, gports),
                            physical_prefix |-> prefix])
                 ELSE loop(k + 1, best_score, best_match)
    IN  loop(1, 0, NoBus)

\* _match_bus_type with the literal 0.7 of its threshold test replaced by t / 10
match_bus_type_at(t, prefix, gports, defs) ==
    LET AcceptedAt(bus_def) ==
            RatioAcceptedAt(t, required_matched(bus_def, prefix, gports),
                            total_required(bus_def))
        RECURSIVE loop(_, _, _)
        loop(k, best_score, best_match) ==
            IF k > Len(defs) THEN best_match
            ELSE IF /\ AcceptedAt(defs[k])
                    /\ Improves(Score(defs[k], prefix, gports), best_score)
                 THEN loop(k + 1, Score(defs[k], prefix, gports),
                           [name |-> Upper(StripUnderscores(prefix)),
                            type |-> defs[k].key,
                            mode |-> detect_bus_mode(defs[k], prefix, gports),
                            physical_prefix |-> prefix])
                 ELSE loop(k + 1, best_score, best_match)
    IN  loop(1, 0, NoBus)

\* detect with the threshold t / 10: one match per group, in dict order
DetectAt(t, groups, defs) ==
    LET RECURSIVE loop(_)
        loop(g) ==
            IF g > Len(groups) THEN <<>>
            ELSE LET bus_match == match_bus_type_at(t, groups[g].prefix, groups[g].ports, defs)
                 IN  (IF bus_match # NoBus THEN <<bus_match>> ELSE <<>>) \o loop(g + 1)
    IN  loop(1)

\* detect, given the groups: one _match_bus_type per group, in dict order
DetectGroups(groups, defs) ==
    LET RECURSIVE loop(_)
        loop(g) ==
            IF g > Len(groups) THEN <<>>
            ELSE LET bus_match == match_bus_type(groups[g].prefix, groups[g].ports, defs)
                 IN  (IF bus_match # NoBus THEN <<bus_match>> ELSE <<>>) \o loop(g + 1)
    IN  loop(1)

\* the (group, definition) pairs for which _match_bus_type takes the
\* "if required_ratio >= 0.7" branch, over all the groups detect walks
MatchLog(groups, defs) ==
    UNION { { <<groups[g].prefix, defs[k].key>> :
                k \in {k \in 1..Len(defs) :
                          Accepted(defs[k], groups[g].prefix, groups[g].ports)} }
            : g \in 1..Len(groups) }

\* IpYamlGenerator._get_bus_port_names
get_bus_port_names(buses, ps) ==
    {ps[i].name : i \in {i \in 1..Len(ps) :
        \E b \in 1..Len(buses) :
            StartsWith(Lower(ps[i].name), Lower(buses[b].physical_prefix))}}

----------------------------------------------------------------------------
(* The inputs of the detection pipeline: a module's port list and the bus  *)
(* definitions loaded from the definitions file.                           *)

\* the most ports a module has
MaxPorts == 3

\* the port names modules are built from (names as the parser returns them)
NameList ==
    << <<"c","l","k","_","r","s","t">>,
       <<"s","_","a","x","i","_","c","l","k">>,
       <<"s","_","a","x","i","_","a","w","a","d","d","r">>,
       <<"s","_","a","x","i","_","w","d","a","t","a">>,
       <<"s","_","a","x","i","_","a","w","r","e","a","d","y">>,
       <<"s","_","a","x","i","_","x","_","a","w","a","d","d","r">>,
       <<"S","_","A","X","I","_","R","D","A","T","A">>,
       <<"s","_","a","x","i","s","_","t","v","a","l","i","d">>,
       <<"s","_","a","x","i","s","_","t","d","a","t","a">> >>

\* the port lists over a list of names: up to MaxPorts ports with distinct names,
\* in the order of the list, with any direction and any of the given widths
PortListsOver(names, widths) ==
    UNION { { [i \in 1..Cardinality(S) |->
                 LET k == CHOOSE k \in S : Cardinality({j \in S : j < k}) = i - 1
                 IN  [name |-> names[k], direction |-> d[k][1], width |-> d[k][2]]]
              : d \in [S -> PortDirection \X widths] }
            : S \in {T \in SUBSET (1..Len(names)) : Cardinality(T) <= MaxPorts} }

\* the port lists of the modules detection runs on: single-bit ports
PortLists == PortListsOver(NameList, {1})

\* the port names the classifier is exercised on: a name that is clock and reset,
\* resets with the marker "_n" last, inside and absent, an upper-case clock, and
\* a name that extends another by a third underscore-separated part
ClassifyNames ==
    << <<"c","l","k","_","r","s","t">>,
       <<"r","s","t","_","n">>,
       <<"r","s","t","_","n","e","w">>,
       <<"a","r","e","s","e","t","n">>,
       <<"C","L","K">>,
       <<"r","s","t","_","n","_","i">> >>

\* the port lists the classifier is exercised on: single-bit and 8-bit ports
ClassifyPortLists == PortListsOver(ClassifyNames, {1, 8})

DefAXI4L ==
    [key |-> "AXI4L", busTypeName |-> <<"a","x","i","4","l">>,
     ports |-> << [name |-> <<"A","W","A","D","D","R">>, direction |-> "out", presence |-> "required"],
                 [name |-> <<"W","D","A","T","A">>, direction |-> "out", presence |-> "required"],
                 [name |-> <<"R","D","A","T","A">>, direction |-> "in", presence |-> "required"],
                 [name |-> <<"B","R","E","S","P">>, direction |-> "in", presence |-> "required"],
                 [name |-> <<"A","W","R","E","A","D","Y">>, direction |-> "in", presence |-> "optional"] >>]

DefAXI4 ==
    [key |-> "AXI4", busTypeName |-> <<"a","x","i","4">>,
     ports |-> << [name |-> <<"A","W","A","D","D","R">>, direction |-> "out", presence |-> "required"],
                 [name |-> <<"W","D","A","T","A">>, direction |-> "out", presence |-> "optional"],
                 [name |-> <<"A","W","R","E","A","D","Y">>, direction |-> "in", presence |-> "optional"] >>]

DefMMIO ==
    [key |-> "MMIO", busTypeName |-> <<"m","m","i","o">>,
     ports |-> << [name |-> <<"A","W","A","D","D","R">>, direction |-> "out", presence |-> "required"],
                 [name |-> <<"A","W","R","E","A","D","Y">>, direction |-> "out", presence |-> "optional"] >>]

DefAXIS ==
    [key |-> "AXIS", busTypeName |-> <<"a","x","i","s">>,
     ports |-> << [name |-> <<"T","V","A","L","I","D">>, direction |-> "out", presence |-> "required"],
                 [name |-> <<"T","D","A","T","A">>, direction |-> "out", presence |-> "optional"] >>]

DefNOREQ ==
    [key |-> "NOREQ", busTypeName |-> <<"n","o","r","e","q">>,
     ports |-> << [name |-> <<"W","D","A","T","A">>, direction |-> "out", presence |-> "optional"] >>]

\* the definition files: the same definitions declared in two orders
Libraries ==
    { <<DefAXI4L, DefAXI4, DefMMIO, DefAXIS, DefNOREQ>>,
      <<DefNOREQ, DefAXIS, DefMMIO, DefAXI4, DefAXI4L>> }

----------------------------------------------------------------------------
(* IpYamlGenerator.generate, from the parsed module on.                    *)

NoText == [kind |-> "none"]

NoExc == "none"

NoModule == [name |-> "None"]

ParseIdle ==
    /\ lang = "none"
    /\ text = NoText
    /\ ppc = "idle"
    /\ tiers = <<>>
    /\ result = NoModule
    /\ raised = NoExc

(* No header has been regenerated.                                         *)
RoundIdle == first_parse = NoModule

RestIdle == LibraryIdle /\ RegisterIdle /\ OffsetIdle /\ RoundIdle

InitDetect ==
    /\ pc = "parsed"
    /\ ports \in PortLists
    /\ bus_definitions \in Libraries
    /\ prefix_groups = <<>>
    /\ bus_interfaces = <<>>
    /\ match_log = {}
    /\ clocks = <<>>
    /\ resets = <<>>
    /\ bus_port_names = {}
    /\ user_ports = ports
    /\ ParseIdle
    /\ RestIdle

\* bus_interfaces = self.bus_detector.detect(ip_core.ports)
Detect ==
    /\ pc = "parsed"
    /\ prefix_groups' = group_ports_by_prefix(ports)
    /\ bus_interfaces' = DetectGroups(prefix_groups', bus_definitions)
    /\ match_log' = MatchLog(prefix_groups', bus_definitions)
    /\ pc' = "detected"
    /\ UNCHANGED <<ports, bus_definitions, clocks, resets, bus_port_names, user_ports>>
    /\ UNCHANGED <<parseVars, restVars>>

\* clocks, resets = self.bus_detector.classify_clocks_resets(ip_core.ports)
Classify ==
    /\ pc = "detected"
    /\ clocks' = ClassifyClocks(ports)
    /\ resets' = ClassifyResets(ports)
    /\ pc' = "classified"
    /\ UNCHANGED <<ports, bus_definitions, prefix_groups, bus_interfaces, match_log,
                   bus_port_names, user_ports>>
    /\ UNCHANGED <<parseVars, restVars>>

NamesOf(records) == {records[i].name : i \in 1..Len(records)}

\* user_ports = [p for p in ip_core.ports if p.name not in excluded_names]
FilterUserPorts ==
    /\ pc = "classified"
    /\ bus_port_names' = get_bus_port_names(bus_interfaces, ports)
    /\ LET excluded_names == get_bus_port_names(bus_interfaces, ports)
                                 \cup NamesOf(clocks) \cup NamesOf(resets)
           Keep(p) == p.name \notin excluded_names
       IN  user_ports' = SelectSeq(ports, Keep)
    /\ pc' = "done"
    /\ UNCHANGED <<ports, bus_definitions, prefix_groups, bus_interfaces, match_log,
                   clocks, resets>>
    /\ UNCHANGED <<parseVars, restVars>>

\* generate with detect_bus off: every port stays a user port
SkipDetection ==
    /\ pc = "parsed"
    /\ pc' = "done_nodetect"
    /\ UNCHANGED <<ports, bus_definitions, prefix_groups, bus_interfaces, match_log,
                   clocks, resets, bus_port_names, user_ports>>
    /\ UNCHANGED <<parseVars, restVars>>

NextDetect == Detect \/ Classify \/ FilterUserPorts \/ SkipDetection

Spec == InitDetect /\ [][NextDetect]_vars

\* generate on the modules the classifier is exercised on
InitClassify ==
    /\ pc = "parsed"
    /\ ports \in ClassifyPortLists
    /\ bus_definitions = <<DefAXI4L, DefAXI4, DefMMIO, DefAXIS, DefNOREQ>>
    /\ prefix_groups = <<>>
    /\ bus_interfaces = <<>>
    /\ match_log = {}
    /\ clocks = <<>>
    /\ resets = <<>>
    /\ bus_port_names = {}
    /\ user_ports = ports
    /\ ParseIdle
    /\ RestIdle

SpecClassify == InitClassify /\ [][NextDetect]_vars

\* the port names detection is exercised on when the threshold is varied: signals
\* of one memory-mapped group and of one streaming group
ThresholdNames ==
    << <<"s","_","a","x","i","_","a","w","a","d","d","r">>,
       <<"s","_","a","x","i","_","w","d","a","t","a">>,
       <<"S","_","A","X","I","_","R","D","A","T","A">>,
       <<"s","_","a","x","i","s","_","t","v","a","l","i","d">>,
       <<"s","_","a","x","i","s","_","t","d","a","t","a">> >>

\* generate on the modules built from those names
InitThreshold ==
    /\ pc = "parsed"
    /\ ports \in PortListsOver(ThresholdNames, {1})
    /\ bus_definitions \in Libraries
    /\ prefix_groups = <<>>
    /\ bus_interfaces = <<>>
    /\ match_log = {}
    /\ clocks = <<>>
    /\ resets = <<>>
    /\ bus_port_names = {}
    /\ user_ports = ports
    /\ ParseIdle
    /\ RestIdle

SpecThreshold == InitThreshold /\ [][NextDetect]_vars

----------------------------------------------------------------------------
(* HDL text, by the features parse_text reacts to: whether the header and   *)
(* the closing are there and in which form, and per declared port whether   *)
(* its direction is written and what shape its type or range has.           *)

\* the most ports a text declares
MaxItems == 2

Abs(x) == IF x < 0 THEN -x ELSE x

SeqsUpTo(S, n) == UNION {[1..k -> S] : k \in 0..n}

\* the name of the i-th declared port
PortName(i) == <<"p", i>>

\* the name a declaration writes: its own where the text spells one, the
\* positional name otherwise
ItemName(item, i) == IF "name" \in DOMAIN item THEN item.name ELSE PortName(i)

\* the text of the i-th declaration where it is taken for a name
RawName(i) == <<"input [W-1:0] p", i>>

\* the base type names of the VHDL port declarations
std_logic == <<"s","t","d","_","l","o","g","i","c">>

std_logic_vector == std_logic \o <<"_","v","e","c","t","o","r">>

unsigned == <<"u","n","s","i","g","n","e","d">>

\* VHDL port declarations "pN : <dir> <type>": shape scalar is <base>, vector
\* <base>(hi downto lo), symbolic <base>(WIDTH-hi downto lo), deep a type whose
\* parentheses nest deeper than the interpreter's recursion limit lets nestedExpr
\* descend, huge a bound of more digits than int() converts; dir missing is a
\* declaration written without a direction
VhdlItemPool ==
    { [dir |-> "in",      base |-> std_logic,        shape |-> "scalar",   hi |-> 0, lo |-> 0],
      [dir |-> "out",     base |-> std_logic_vector, shape |-> "vector",   hi |-> 7, lo |-> 0],
      [dir |-> "buffer",  base |-> std_logic_vector, shape |-> "vector",   hi |-> 0, lo |-> 7],
      [dir |-> "missing", base |-> std_logic,        shape |-> "scalar",   hi |-> 0, lo |-> 0],
      [dir |-> "in",      base |-> std_logic_vector, shape |-> "symbolic", hi |-> 1, lo |-> 0],
      [dir |-> "in",      base |-> std_logic_vector, shape |-> "deep",     hi |-> 0, lo |-> 0],
      [dir |-> "inout",   base |-> std_logic_vector, shape |-> "huge",     hi |-> 0, lo |-> 0],
      [dir |-> "linkage", base |-> std_logic,        shape |-> "scalar",   hi |-> 0, lo |-> 0],
      [dir |-> "in",      base |-> unsigned,         shape |-> "vector",   hi |-> 3, lo |-> 0] }

\* VHDL texts: header is "entity e is port (", with the clause
\* "generic ( WIDTH : natural := 8 );" before "port" when generic is set; closing is
\* "end entity e;" (named), "end;" (bare) or missing
VhdlTexts ==
    { [kind |-> "vhdl", header |-> FALSE, generic |-> FALSE, closing |-> "none",
       items |-> <<>>] }
    \cup { [kind |-> "vhdl", header |-> TRUE, generic |-> g, closing |-> c, items |-> it] :
             g \in BOOLEAN, c \in {"named", "bare", "none"},
             it \in SeqsUpTo(VhdlItemPool, MaxItems) }

\* Verilog port declarations "<dir> [hi:lo] pN": shape scalar has no range,
\* symbolic is [W-1:0], huge a bound of more digits than int() converts
VerilogItemPool ==
    { [dir |-> "input",  shape |-> "scalar",   hi |-> 0, lo |-> 0],
      [dir |-> "output", shape |-> "vector",   hi |-> 7, lo |-> 0],
      [dir |-> "inout",  shape |-> "vector",   hi |-> 0, lo |-> 7],
      [dir |-> "input",  shape |-> "symbolic", hi |-> 0, lo |-> 0],
      [dir |-> "output", shape |-> "huge",     hi |-> 0, lo |-> 0] }

\* Verilog texts: keyword is whether the text contains "module"; header is
\* "module m (...);" (adjacent), "module m (...) ;" (spaced) or no port list at all;
\* style ansi declares the ports in the header, nonansi names them there and
\* declares them in the body
VerilogTexts ==
    { [kind |-> "verilog", keyword |-> k, header |-> "none", endmodule |-> k,
       style |-> "ansi", items |-> <<>>] : k \in BOOLEAN }
    \cup { t \in { [kind |-> "verilog", keyword |-> TRUE, header |-> h, endmodule |-> e,
                    style |-> st, items |-> it] :
                     h \in {"adjacent", "spaced"}, e \in BOOLEAN,
                     st \in {"ansi", "nonansi"},
                     it \in SeqsUpTo(VerilogItemPool, MaxItems) } :
             t.style = "ansi" \/ t.items # <<>> }

\* PortDirection.from_string
from_string(value) ==
    CASE value \in {"in", "input", "linkage"} -> DirIn
      [] value \in {"out", "output", "buffer"} -> DirOut
      [] value = "inout" -> DirInout
      [] OTHER -> DirIn

\* Port(name=..., direction=..., width=...)
Port(name, direction, width) == [name |-> name, direction |-> direction, width |-> width]

\* Port.validate_width: a width that is not positive raises ValueError
WidthRejected(width) == width <= 0

\* Parameter(name=..., value=...)
Parameter(name, value) == [name |-> name, value |-> value]

\* IpCore(vlnv=VLNV(name=...), description=..., ports=...), parameters set after
IpCore(name, description, ps, parameters) ==
    [name |-> name, description |-> description, ports |-> ps, parameters |-> parameters]

\* the outcome of a tier's body: the exception it ends with, or its module
Raises(exc) == [exc |-> exc, module |-> NoModule]

Returns(module) == [exc |-> NoExc, module |-> module]

NoPort == [name |-> "None"]

\* the elements of seq at the positions in S, in order
KeepAt(seq, S) ==
    LET RECURSIVE loop(_)
        loop(i) == IF i > Len(seq) THEN <<>>
                   ELSE (IF i \in S THEN <<seq[i]>> ELSE <<>>) \o loop(i + 1)
    IN  loop(1)

----------------------------------------------------------------------------
(* VHDLParser.parse_text: the grammar tier, then the regex fallback.       *)

\* self.entity_decl.search_string(vhdl_text_clean): the grammar walks the port
\* declarations in order; one without a direction ends the match, a deep type
\* overflows the parser's recursion
VhdlGrammarScan(t) ==
    LET RECURSIVE scan(_)
        scan(i) ==
            IF i > Len(t.items) THEN (IF t.closing = "none" THEN "nomatch" ELSE "match")
            ELSE IF t.items[i].dir = "missing" THEN "nomatch"
            ELSE IF t.items[i].shape = "deep" THEN "RecursionError"
            ELSE scan(i + 1)
    IN  IF ~t.header THEN "nomatch" ELSE scan(1)

\* _create_port_from_data: the width is abs(high - low) + 1 for "(N downto M)" and
\* 1 otherwise; its own handler turns the ValueError of int() into None
create_port_from_data(item, i) ==
    IF Contains(Lower(item.base), <<"v","e","c","t","o","r">>) /\ item.shape = "huge"
    THEN NoPort
    ELSE Port(ItemName(item, i), from_string(item.dir),
              IF Contains(Lower(item.base), <<"v","e","c","t","o","r">>)
                     /\ item.shape = "vector"
              THEN Abs(item.hi - item.lo) + 1 ELSE 1)

\* the generics of the text as parameters: _create_parameter_from_data on each
generic_parameters(t) == IF t.generic THEN <<Parameter("WIDTH", "8")>> ELSE <<>>

\* the try block of parse_text: the entity built from the grammar's match
VhdlGrammarBody(t) ==
    LET scan   == VhdlGrammarScan(t)
        made   == [i \in 1..Len(t.items) |-> create_port_from_data(t.items[i], i)]
        IsPort(q) == q # NoPort
    IN  IF scan = "RecursionError" THEN Raises("RecursionError")
        ELSE IF scan = "match"
             THEN Returns(IpCore("e", "Parsed from VHDL entity", SelectSeq(made, IsPort),
                                 generic_parameters(t)))
             ELSE Returns(NoModule)

\* the width _parse_with_regex computes: the first "N downto M" found anywhere in
\* the parentheses, as N - M + 1
VhdlRegexWidth(item) ==
    IF item.shape \in {"vector", "symbolic"} THEN item.hi - item.lo + 1 ELSE 1

\* whether building the port of a declaration raises ValueError: int() of a huge
\* bound, or Port's width validation
VhdlRegexItemRaises(item) ==
    /\ item.dir # "missing"
    /\ item.shape = "huge" \/ WidthRejected(VhdlRegexWidth(item))

\* the try block of _parse_with_regex: it needs "entity e is ... end e"; a
\* declaration its port pattern does not match is skipped
VhdlRegexBody(t) ==
    LET n      == Len(t.items)
        made   == [i \in 1..n |-> Port(ItemName(t.items[i], i), from_string(t.items[i].dir),
                                         VhdlRegexWidth(t.items[i]))]
        found  == {i \in 1..n : t.items[i].dir # "missing"}
    IN  IF ~t.header \/ t.closing # "named" THEN Returns(NoModule)
        ELSE IF \E i \in 1..n : VhdlRegexItemRaises(t.items[i]) THEN Raises("ValueError")
        ELSE Returns(IpCore("e", "Parsed from VHDL (regex fallback)", KeepAt(made, found),
                            <<>>))

\* the exception classes each tier's except clause names
VhdlGrammarCatches == {"ParseBaseException"}

VhdlRegexCatches == {"ValueError", "KeyError", "AttributeError"}

VerilogRegexCatches == {"re.error", "ValueError", "KeyError", "AttributeError"}

VerilogGrammarCatches == {"ParseBaseException"}

\* what became of a tier: it built a module, found none, had its exception
\* absorbed by its handler, or let it out of parse_text
Entry(tier, out, catches) ==
    [tier |-> tier,
     outcome |-> IF out.exc = NoExc
                 THEN (IF out.module = NoModule THEN "nomatch" ELSE "module")
                 ELSE IF out.exc \in catches THEN "absorbed" ELSE "raised"]

\* a fallback that runs whatever the grammar tier produced
RunsFallback_Always(entity) == TRUE

\* if result["entity"] is None: return self._parse_with_regex(vhdl_text_clean)
RunsFallback(entity) == entity = NoModule

\* a tier's effect on parse_text: log it, keep its module, or raise
TierStep(e, out, next_ppc) ==
    /\ tiers' = Append(tiers, e)
    /\ IF e.outcome = "raised"
       THEN raised' = out.exc /\ result' = result /\ ppc' = "raised"
       ELSE raised' = raised /\ result' = out.module /\ ppc' = next_ppc
    /\ UNCHANGED <<lang, text>>
    /\ UNCHANGED <<detectVars, restVars>>

VhdlGrammarTier ==
    /\ lang = "vhdl"
    /\ ppc = "start"
    /\ LET out == VhdlGrammarBody(text)
       IN  TierStep(Entry("grammar", out, VhdlGrammarCatches), out,
                    IF RunsFallback(out.module) THEN "fallback" ELSE "done")

VhdlFallbackTier ==
    /\ lang = "vhdl"
    /\ ppc = "fallback"
    /\ LET out == VhdlRegexBody(text)
       IN  TierStep(Entry("pattern", out, VhdlRegexCatches), out, "done")

----------------------------------------------------------------------------
(* VerilogParser.parse_text: the keyword check, the regex tier, then the   *)
(* pyparsing tier.                                                         *)

\* msb and lsb of a declaration's range, or <<>> for None
ItemRange(item) == IF item.shape = "vector" THEN <<item.hi, item.lo>> ELSE <<>>

\* _create_port: width = abs(msb - lsb) + 1 when both are given, else 1
create_port(name, direction_str, range) ==
    Port(name, from_string(direction_str),
         IF range # <<>> THEN Abs(range[1] - range[2]) + 1 ELSE 1)

\* the try block of the regex tier: module_pattern needs "module m (...);" ; the
\* ANSI pattern finds the header declarations with a numeric or no range; when it
\* finds none, the header is split at commas into names and the declarations are
\* looked up in the body; int() of a huge bound raises ValueError
VerilogRegexBody(t) ==
    LET n == Len(t.items)
        ansi_ports == {i \in 1..n : t.style = "ansi" /\ t.items[i].shape # "symbolic"}
        port_decls == {i \in 1..n : t.style = "nonansi" /\ t.items[i].shape # "symbolic"}
        converted  == IF ansi_ports # {} THEN ansi_ports ELSE port_decls
        declared   == [i \in 1..n |->
                          create_port(PortName(i), t.items[i].dir, ItemRange(t.items[i]))]
        named      == [i \in 1..n |->
                          IF i \in port_decls THEN declared[i]
                          ELSE create_port(IF t.style = "ansi" THEN RawName(i)
                                           ELSE PortName(i), "input", <<>>)]
    IN  IF t.header # "adjacent" THEN Returns(NoModule)
        ELSE IF \E i \in converted : t.items[i].shape = "huge" THEN Raises("ValueError")
        ELSE IF ansi_ports # {}
             THEN Returns(IpCore("m", "Parsed from Verilog module", KeepAt(declared, ansi_ports), <<>>))
             ELSE Returns(IpCore("m", "Parsed from Verilog module", named, <<>>))

\* the try block of the pyparsing tier: module_decl needs the port list, ";" and
\* endmodule; the ANSI alternative needs every declaration to have a numeric or no
\* range, and _create_port_from_decl converts the bounds with int(); the non-ANSI
\* alternative yields a module without ports
VerilogGrammarBody(t) ==
    LET n == Len(t.items)
        declared == [i \in 1..n |->
                        create_port(PortName(i), t.items[i].dir, ItemRange(t.items[i]))]
    IN  IF t.header = "none" \/ ~t.endmodule THEN Returns(NoModule)
        ELSE IF t.style = "nonansi"
             THEN Returns(IpCore("m", "Parsed from Verilog module", <<>>, <<>>))
        ELSE IF \E i \in 1..n : t.items[i].shape = "symbolic" THEN Returns(NoModule)
        ELSE IF \E i \in 1..n : t.items[i].shape = "huge" THEN Raises("ValueError")
        ELSE Returns(IpCore("m", "Parsed from Verilog module", declared, <<>>))

\* if "module" not in verilog_text.lower(): return result
VerilogKeywordCheck ==
    /\ lang = "verilog"
    /\ ppc = "start"
    /\ ppc' = IF text.keyword THEN "regex" ELSE "done"
    /\ UNCHANGED <<lang, text, tiers, result, raised>>
    /\ UNCHANGED <<detectVars, restVars>>

VerilogRegexTier ==
    /\ lang = "verilog"
    /\ ppc = "regex"
    /\ LET out == VerilogRegexBody(text)
       IN  TierStep(Entry("pattern", out, VerilogRegexCatches), out,
                    IF out.module = NoModule THEN "grammar" ELSE "done")

VerilogGrammarTier ==
    /\ lang = "verilog"
    /\ ppc = "grammar"
    /\ LET out == VerilogGrammarBody(text)
       IN  TierStep(Entry("grammar", out, VerilogGrammarCatches), out, "done")

DetectIdle ==
    /\ pc = "idle"
    /\ ports = <<>>
    /\ bus_definitions = <<>>
    /\ prefix_groups = <<>>
    /\ bus_interfaces = <<>>
    /\ match_log = {}
    /\ clocks = <<>>
    /\ resets = <<>>
    /\ bus_port_names = {}
    /\ user_ports = <<>>

InitParse ==
    /\ text \in VhdlTexts \cup VerilogTexts
    /\ lang = text.kind
    /\ ppc = "start"
    /\ tiers = <<>>
    /\ result = NoModule
    /\ raised = NoExc
    /\ DetectIdle
    /\ RestIdle

NextParse ==
    \/ VhdlGrammarTier
    \/ VhdlFallbackTier
    \/ VerilogKeywordCheck
    \/ VerilogRegexTier
    \/ VerilogGrammarTier

SpecParse == InitParse /\ [][NextParse]_vars

----------------------------------------------------------------------------
(* Properties of the detection pipeline.                                   *)

Detected == pc \in {"detected", "classified", "done"}

Range(seq) == {seq[i] : i \in 1..Len(seq)}

\* the ports of the prefix group a bus interface was matched from
GroupPorts(prefix) == (CHOOSE g \in Range(prefix_groups) : g.prefix = prefix).ports

\* the definition a bus interface's type names
BusDef(key) == CHOOSE d \in Range(bus_definitions) : d.key = key

ReqMatched(d, g) == required_matched(d, g.prefix, g.ports)

OptMatched(d, g) == optional_matched(d, g.prefix, g.ports)

BusGroup(b) == [prefix |-> b.physical_prefix, ports |-> GroupPorts(b.physical_prefix)]

\* the bus interfaces a port belongs to: a record carries its physical_prefix
\* only, and _get_bus_port_names reads membership from it
BusesOf(p) ==
    {i \in 1..Len(bus_interfaces) :
        StartsWith(Lower(p.name), Lower(bus_interfaces[i].physical_prefix))}

\* C1 (as stated): after generate, the clocks, the resets, the ports matched to a
\* bus interface and the user ports are pairwise disjoint and their union is the
\* module's full port list.
C1_Partition ==
    pc = "done" =>
        LET C == NamesOf(clocks)
            R == NamesOf(resets)
            B == bus_port_names
            U == NamesOf(user_ports)
        IN  /\ C \cup R \cup B \cup U = NamesOf(ports)
            /\ C \cap R = {} /\ C \cap B = {} /\ C \cap U = {}
            /\ R \cap B = {} /\ R \cap U = {} /\ B \cap U = {}

\* C4 (as stated): every bus interface detect returns comes from a group that
\* matches every required signal of its definition, and a group missing a required
\* signal of a definition yields no bus interface of that type.
C4_AllRequired ==
    Detected =>
        /\ \A b \in Range(bus_interfaces) :
              ReqMatched(BusDef(b.type), BusGroup(b)) = total_required(BusDef(b.type))
        /\ \A g \in Range(prefix_groups) : \A d \in Range(bus_definitions) :
              ReqMatched(d, g) < total_required(d) =>
                  ~\E b \in Range(bus_interfaces) :
                        b.physical_prefix = g.prefix /\ b.type = d.key

\* C4 (amended): every bus interface detect returns comes from a group that matches
\* at least 70% (and at least one) of the required signals of its definition, and a
\* group that matches fewer yields no bus interface of that type.
C4_SeventyPercent ==
    Detected =>
        /\ \A b \in Range(bus_interfaces) :
              LET m == ReqMatched(BusDef(b.type), BusGroup(b))
                  n == total_required(BusDef(b.type))
              IN  n > 0 /\ 10 * m >= 7 * n
        /\ \A g \in Range(prefix_groups) : \A d \in Range(bus_definitions) :
              (total_required(d) = 0 \/ 10 * ReqMatched(d, g) < 7 * total_required(d)) =>
                  ~\E b \in Range(bus_interfaces) :
                        b.physical_prefix = g.prefix /\ b.type = d.key

\* a bus interface was returned for a group that misses a required signal of its type
C4_Witness ==
    /\ Detected
    /\ \E b \in Range(bus_interfaces) :
          ReqMatched(BusDef(b.type), BusGroup(b)) < total_required(BusDef(b.type))

\* C5: for each (prefix group, definition) pair the definition is rejected exactly
\* when required_matches / total_required < 0.7 (the ratio counting as 0, as in the
\* source, for a definition without required signals).
C5_RejectedBelowRatio ==
    Detected =>
        \A g \in Range(prefix_groups) : \A d \in Range(bus_definitions) :
            (<<g.prefix, d.key>> \notin match_log)
                <=> (IF total_required(d) = 0 THEN TRUE
                     ELSE 10 * ReqMatched(d, g) < 7 * total_required(d))

\* one group rejects a definition of which it matches some required signal, and
\* accepts another
C5_Witness ==
    /\ Detected
    /\ \E g \in Range(prefix_groups) : \E d, e \in Range(bus_definitions) :
          /\ ReqMatched(d, g) > 0 /\ <<g.prefix, d.key>> \notin match_log
          /\ <<g.prefix, e.key>> \in match_log

\* the positions in the library of the definitions not rejected for group g
Candidates(g) ==
    {k \in 1..Len(bus_definitions) :
        LET m == ReqMatched(bus_definitions[k], g)
            n == total_required(bus_definitions[k])
        IN  n > 0 /\ 10 * m >= 7 * n}

ClaimScore(k, g) == ReqMatched(bus_definitions[k], g) * 10 + OptMatched(bus_definitions[k], g)

\* the candidates of group g with the highest score
TopCandidates(g) ==
    {k \in Candidates(g) : \A j \in Candidates(g) : ClaimScore(j, g) <= ClaimScore(k, g)}

\* C6: for each prefix group the emitted bus interface has the type of the
\* non-rejected definition with the highest score required*10 + optional, the one
\* declared earliest among those sharing it; a group emits at most one interface.
C6_HighestScoreEarliest ==
    Detected =>
        \A g \in Range(prefix_groups) :
            LET emitted == {i \in 1..Len(bus_interfaces) :
                               bus_interfaces[i].physical_prefix = g.prefix}
            IN  IF Candidates(g) = {} THEN emitted = {}
                ELSE /\ Cardinality(emitted) = 1
                     /\ \A i \in emitted :
                           bus_interfaces[i].type = bus_definitions[Min(TopCandidates(g))].key

\* a group for which two definitions share the highest score, with its interface,
\* and a group with a non-rejected definition of a lower score
C6_Witness ==
    /\ Detected
    /\ \E g \in Range(prefix_groups) :
          /\ Cardinality(TopCandidates(g)) >= 2
          /\ \E b \in Range(bus_interfaces) : b.physical_prefix = g.prefix
    /\ \E h \in Range(prefix_groups) : \E c \in Candidates(h) : c \notin TopCandidates(h)

\* C7 (as stated): no port belongs to two of the bus interfaces detect returns.
C7_OneInterfacePerPort ==
    Detected => \A p \in Range(ports) : Cardinality(BusesOf(p)) <= 1

\* C8 (as stated): no port classified as clock or reset is a member of a prefix group.
C8_NoClockResetInGroups ==
    pc \in {"classified", "done"} =>
        \A g \in Range(prefix_groups) : \A p \in Range(g.ports) :
            p.name \notin NamesOf(clocks) \cup NamesOf(resets)

\* the entries of a definition that name a mode-deciding signal the group has
Designated(d, g, signals) ==
    {i \in 1..Len(d.ports) :
        /\ Upper(d.ports[i].name) \in signals
        /\ Upper(d.ports[i].name) \in SuffixKeys(g.prefix, g.ports)}

\* C9 (as stated): for a memory-mapped definition whose designated signal is present
\* in the group, the mode is master when the port's direction equals the expected
\* direction of the definition, and slave when it differs.
C9_MasterIffExpected ==
    Detected =>
        \A b \in Range(bus_interfaces) :
            LET d == BusDef(b.type)
                g == BusGroup(b)
                ds == Designated(d, g, MemorySignals)
            IN  (~IsStreaming(d) /\ ds # {}) =>
                    LET e == d.ports[Min(ds)]
                        actual == SuffixPort(g.prefix, g.ports, Upper(e.name)).direction
                    IN  b.mode = (IF actual = e.direction THEN MASTER ELSE SLAVE)

\* C10 (as stated): with the designated signal absent from the group, the mode is
\* slave for a memory-mapped definition and sink for a streaming one.
C10_DefaultSlaveSink ==
    Detected =>
        \A b \in Range(bus_interfaces) :
            LET d == BusDef(b.type)
                g == BusGroup(b)
            IN  /\ (~IsStreaming(d) /\ Designated(d, g, MemorySignals) = {}) => b.mode = SLAVE
                /\ (IsStreaming(d) /\ Designated(d, g, StreamSignals) = {}) => b.mode = SINK

\* C10 (amended): with the designated signal absent from the group, the mode is
\* slave for a memory-mapped definition and source for a streaming one.
C10_DefaultSlaveSource ==
    Detected =>
        \A b \in Range(bus_interfaces) :
            LET d == BusDef(b.type)
                g == BusGroup(b)
            IN  /\ (~IsStreaming(d) /\ Designated(d, g, MemorySignals) = {}) => b.mode = SLAVE
                /\ (IsStreaming(d) /\ Designated(d, g, StreamSignals) = {}) => b.mode = SOURCE

\* one module with a streaming and a memory-mapped interface, both without their
\* designated signal
C10_Witness ==
    /\ Detected
    /\ \E b, c \in Range(bus_interfaces) :
          /\ IsStreaming(BusDef(b.type))
          /\ Designated(BusDef(b.type), BusGroup(b), StreamSignals) = {}
          /\ ~IsStreaming(BusDef(c.type))
          /\ Designated(BusDef(c.type), BusGroup(c), MemorySignals) = {}

----------------------------------------------------------------------------
(* Properties of parse_text.                                               *)

\* C2 (as stated): parse_text returns a result for every input string and never
\* raises an exception.
C2_NeverRaises == raised = NoExc /\ ppc # "raised"

\* the outcomes of a tier that produced no module without raising
NoModuleOutcomes == {"nomatch", "absorbed"}

----------------------------------------------------------------------------
(* Properties of classify_clocks_resets.                                   *)

Classified == pc \in {"classified", "done"}

\* C11: for any port list, the Clock list and the Reset list returned by
\* classify_clocks_resets have no port name in common.
C11_ClockResetDisjoint ==
    Classified => NamesOf(clocks) \cap NamesOf(resets) = {}

\* C12: every port returned as a clock or a reset is a single-bit input port: a
\* port with direction out or inout, or with a width other than 1, is never
\* classified, whatever its name.
C12_SingleBitInputs ==
    Classified =>
        \A i \in 1..Len(ports) :
            ports[i].name \in NamesOf(clocks) \cup NamesOf(resets)
                => ports[i].direction = DirIn /\ ports[i].width = 1

\* the negation marker ("_n", or the "n" of "resetn") is the end of the name
TrailingMarker(name) ==
    \/ EndsWith(Lower(name), <<"_","n">>)
    \/ EndsWith(Lower(name), <<"r","e","s","e","t","n">>)

\* C13: a classified reset is active-low exactly when its name ends with the
\* negation marker; every other classified reset is active-high.
C13_ActiveLowIffTrailing ==
    Classified =>
        \A i \in 1..Len(resets) :
            /\ resets[i].polarity \in {ACTIVE_LOW, ACTIVE_HIGH}
            /\ resets[i].polarity = ACTIVE_LOW <=> TrailingMarker(resets[i].name)

----------------------------------------------------------------------------
(* Properties of the ports VHDLParser.parse_text returns.                  *)

VhdlParsed == lang = "vhdl" /\ ppc = "done"

\* the declaration a returned port was built from
ItemOf(q) == text.items[q.name[2]]

\* a declaration with a direction and a type that is a scalar or has a literal
\* range written high bound first
PlainItem(item) ==
    /\ item.dir # "missing"
    /\ item.shape \in {"scalar", "vector"}
    /\ item.hi >= item.lo

\* a port list whose last declaration lacks its direction, the ones before it
\* being plain, in a well-formed entity
LastItemLacksDirection ==
    /\ text.header
    /\ text.closing # "none"
    /\ Len(text.items) >= 2
    /\ text.items[Len(text.items)].dir = "missing"
    /\ \A i \in 1..(Len(text.items) - 1) : PlainItem(text.items[i])

\* C14: when the last item of a port list is missing its direction keyword, the
\* parser returns a module that contains every preceding port and skips only the
\* malformed item; it does not report that no module was found.
C14_PrecedingPortsKept ==
    (VhdlParsed /\ LastItemLacksDirection) =>
        /\ result # NoModule
        /\ Len(result.ports) = Len(text.items) - 1
        /\ \A i \in 1..Len(result.ports) : result.ports[i].name = PortName(i)

\* C15: for a port type base(HIGH downto LOW) with integer literal bounds, the
\* parsed width is HIGH - LOW + 1, for every base type name and in whichever tier
\* handled the declaration.
C15_WidthFromLiteralRange ==
    (VhdlParsed /\ result # NoModule) =>
        \A i \in 1..Len(result.ports) :
            LET q == result.ports[i]
            IN  (ItemOf(q).shape = "vector" /\ ItemOf(q).hi >= ItemOf(q).lo)
                    => q.width = ItemOf(q).hi - ItemOf(q).lo + 1

\* a literal range written low bound first
ReversedRange(item) == item.shape = "vector" /\ item.hi < item.lo

\* a well-formed entity whose declarations have scalar types or literal ranges,
\* one of them reversed
HasReversedRange ==
    /\ text.header
    /\ text.closing = "named"
    /\ \A i \in 1..Len(text.items) : text.items[i].shape \in {"scalar", "vector"}
    /\ \E i \in 1..Len(text.items) :
           text.items[i].dir # "missing" /\ ReversedRange(text.items[i])

\* C16: a port whose range is malformed is still returned, with width 1; it never
\* makes the parse of its module fail or the module's other ports disappear.
C16_MalformedRangeWidthOne ==
    (VhdlParsed /\ HasReversedRange) =>
        /\ result # NoModule
        /\ \A i \in 1..Len(text.items) :
               text.items[i].dir # "missing" =>
                   \E k \in 1..Len(result.ports) :
                       /\ result.ports[k].name = PortName(i)
                       /\ ReversedRange(text.items[i]) => result.ports[k].width = 1

\* C17: a port whose range bound references the generic WIDTH (declared
\* natural := 8) is returned with the symbolic name "WIDTH" as its width, not
\* with a number.
C17_SymbolicWidth ==
    (VhdlParsed /\ text.generic /\ result # NoModule) =>
        \A i \in 1..Len(result.ports) :
            ItemOf(result.ports[i]).shape = "symbolic" => result.ports[i].width \notin Int

----------------------------------------------------------------------------
(* Properties of the names and the groups detection produces.              *)

\* C18: names in output records keep the casing of the source port names: the
\* name of every classified clock and reset is the name of a port as spelled in
\* the source, and the physical_prefix of every detected bus interface is spelled
\* as the beginning of its ports' names in the source.
C18_OriginalCasing ==
    Classified =>
        /\ NamesOf(clocks) \cup NamesOf(resets) \subseteq NamesOf(ports)
        /\ \A b \in Range(bus_interfaces) :
               \A q \in Range(GroupPorts(b.physical_prefix)) :
                   StartsWith(q.name, b.physical_prefix)

\* whether a known family pattern of _group_ports_by_prefix matches the name
KnownFamily(name) ==
    \E k \in 1..Len(prefix_patterns) :
        PatternPrefix(prefix_patterns[k], Lower(name)) # NoMatch

\* the prefix groups formed by the generic two-token underscore rule alone
GenericGroups ==
    {g \in Range(prefix_groups) : \A q \in Range(g.ports) : ~KnownFamily(q.name)}

\* C19: every prefix group formed by the generic two-token underscore rule, not
\* by a known family pattern, contains at least two ports.
C19_GenericGroupsShared ==
    Detected => \A g \in GenericGroups : Len(g.ports) >= 2

----------------------------------------------------------------------------
(* Detection as a function of the required-match threshold.                *)

\* the thresholds, in tenths: 0.0, 0.1, ..., 1.0
Thresholds == 0..10

\* the bus interfaces detected in the current module under threshold t / 10
InterfacesAt(t) == Range(DetectAt(t, prefix_groups, bus_definitions))

\* the prefix groups for which a bus interface is detected under threshold t / 10
PrefixesAt(t) == {b.physical_prefix : b \in InterfacesAt(t)}

\* C20 (as stated): for a fixed port list and library, the set of bus interfaces
\* detected under a threshold t2 is a subset of the set detected under any lower
\* threshold t1 <= t2.
C20_InterfacesShrink ==
    pc = "detected" =>
        LET detected_at == [t \in Thresholds |-> InterfacesAt(t)]
        IN  \A t1 \in Thresholds : \A t2 \in Thresholds :
                t1 <= t2 => detected_at[t2] \subseteq detected_at[t1]

\* C20 (amended): for a fixed port list and library, raising the required-match
\* threshold never increases detections: the prefix groups for which a bus
\* interface is detected under a threshold t2 are among those for which one is
\* detected under any lower threshold t1 <= t2 (the bus type chosen for a group
\* may differ between the two thresholds); under the source's threshold the
\* interfaces are those detect returns.
C20_DetectionsShrink ==
    pc = "detected" =>
        LET prefixes_at == [t \in Thresholds |-> PrefixesAt(t)]
        IN  /\ bus_interfaces = DetectAt(ThresholdTenths, prefix_groups, bus_definitions)
            /\ \A t1 \in Thresholds : \A t2 \in Thresholds :
                   t1 <= t2 => prefixes_at[t2] \subseteq prefixes_at[t1]

\* a module with a bus interface under the source's threshold, whose detections
\* under some threshold are fewer than under a lower one and not none
C20_Witness ==
    /\ pc = "detected"
    /\ bus_interfaces # <<>>
    /\ LET prefixes_at == [t \in Thresholds |-> PrefixesAt(t)]
       IN  \E t1 \in Thresholds : \E t2 \in Thresholds :
               /\ t1 < t2
               /\ prefixes_at[t2] # {}
               /\ prefixes_at[t2] # prefixes_at[t1]

----------------------------------------------------------------------------
(* Properties of the prefix groups.                                        *)

\* the lowered logical signal names the library defines for a family: those of
\* the streaming definitions for the stream families, of the others otherwise
LogicalNames(pat) ==
    UNION { {Lower(d.ports[i].name) : i \in 1..Len(d.ports)} :
            d \in {d \in Range(bus_definitions) : (pat.kind = "axis") <=> IsStreaming(d)} }

\* the port's name is the family prefix followed by a logical signal name
FamilyPort(p, pat) ==
    LET name == Lower(p.name)
    IN /\ StartsWith(name, pat.head)
       /\ \E sig \in LogicalNames(pat) : name = pat.head \o sig

C28_GroupPortsStartWithPrefix ==
    Detected =>
        \A g \in Range(prefix_groups) : \A q \in Range(g.ports) :
            /\ StartsWith(Lower(q.name), g.prefix)
            /\ g.prefix \o Lower(Suffix(g.prefix, q)) = Lower(q.name)

----------------------------------------------------------------------------
(* The bus library of a process: get_bus_library and the consumers of the  *)
(* bus definitions.  The threads of the process interleave between         *)
(* bytecodes, so the test of _library_instance, BusLibrary.load, the       *)
(* assignment and the final read of the global are separate steps.         *)

(* Everything but the library state.                                       *)
nonLibraryVars == <<detectVars, parseVars, registerVars, offsetVars, roundVars>>

InitLibrary ==
    /\ library_instance = NoInstance
    /\ file_reads = 0
    /\ library_loads = 0
    /\ tpc = [t \in Threads |-> "idle"]
    /\ loaded = [t \in Threads |-> NoInstance]
    /\ returned = [t \in Threads |-> <<>>]
    /\ calls = [t \in Threads |-> 0]
    /\ DetectIdle
    /\ ParseIdle
    /\ RegisterIdle
    /\ OffsetIdle
    /\ RoundIdle

(* get_bus_library, entry: `if _library_instance is None`.                 *)
GetBusLibraryTest(t) ==
    /\ tpc[t] = "idle"
    /\ calls[t] < MaxCalls
    /\ calls' = [calls EXCEPT ![t] = @ + 1]
    /\ tpc' = [tpc EXCEPT ![t] = IF library_instance = NoInstance THEN "load" ELSE "return"]
    /\ UNCHANGED <<library_instance, file_reads, library_loads, loaded, returned>>
    /\ UNCHANGED nonLibraryVars

(* BusLibrary.load(): opens the definitions file and builds a new          *)
(* BusLibrary from it.                                                     *)
BusLibraryLoad(t) ==
    /\ tpc[t] = "load"
    /\ file_reads' = file_reads + 1
    /\ library_loads' = library_loads + 1
    /\ loaded' = [loaded EXCEPT ![t] = library_loads + 1]
    /\ tpc' = [tpc EXCEPT ![t] = "assign"]
    /\ UNCHANGED <<library_instance, returned, calls>>
    /\ UNCHANGED nonLibraryVars

(* `_library_instance = <the loaded library>`.                             *)
GetBusLibraryAssign(t) ==
    /\ tpc[t] = "assign"
    /\ library_instance' = loaded[t]
    /\ tpc' = [tpc EXCEPT ![t] = "return"]
    /\ UNCHANGED <<file_reads, library_loads, loaded, returned, calls>>
    /\ UNCHANGED nonLibraryVars

(* `return _library_instance`: the global is read again.                   *)
GetBusLibraryReturn(t) ==
    /\ tpc[t] = "return"
    /\ returned' = [returned EXCEPT ![t] = Append(@, library_instance)]
    /\ tpc' = [tpc EXCEPT ![t] = "idle"]
    /\ UNCHANGED <<library_instance, file_reads, library_loads, loaded, calls>>
    /\ UNCHANGED nonLibraryVars

(* BusInterfaceDetector(): _load_definitions opens the definitions file    *)
(* (which exists in an installed package) and parses it.                   *)
NewBusInterfaceDetector(t) ==
    /\ tpc[t] = "idle"
    /\ calls[t] < MaxCalls
    /\ calls' = [calls EXCEPT ![t] = @ + 1]
    /\ file_reads' = file_reads + 1
    /\ UNCHANGED <<library_instance, library_loads, tpc, loaded, returned>>
    /\ UNCHANGED nonLibraryVars

(* IpYamlGenerator(detect_bus): builds a BusInterfaceDetector when         *)
(* detect_bus is set.                                                      *)
NewIpYamlGenerator(t) ==
    \E detect_bus \in BOOLEAN :
        /\ tpc[t] = "idle"
        /\ calls[t] < MaxCalls
        /\ calls' = [calls EXCEPT ![t] = @ + 1]
        /\ file_reads' = IF detect_bus THEN file_reads + 1 ELSE file_reads
        /\ UNCHANGED <<library_instance, library_loads, tpc, loaded, returned>>
        /\ UNCHANGED nonLibraryVars

(* IpCoreProjectGenerator(): _load_bus_definitions opens the definitions   *)
(* file and parses it.                                                     *)
NewIpCoreProjectGenerator(t) ==
    /\ tpc[t] = "idle"
    /\ calls[t] < MaxCalls
    /\ calls' = [calls EXCEPT ![t] = @ + 1]
    /\ file_reads' = file_reads + 1
    /\ UNCHANGED <<library_instance, library_loads, tpc, loaded, returned>>
    /\ UNCHANGED nonLibraryVars

NextLibrary ==
    \E t \in Threads :
        \/ GetBusLibraryTest(t)
        \/ BusLibraryLoad(t)
        \/ GetBusLibraryAssign(t)
        \/ GetBusLibraryReturn(t)
        \/ NewBusInterfaceDetector(t)
        \/ NewIpYamlGenerator(t)
        \/ NewIpCoreProjectGenerator(t)

SpecLibrary == InitLibrary /\ [][NextLibrary]_vars

----------------------------------------------------------------------------
(* Properties of the bus library.                                          *)

(* C22: within one process the bus-definition source is read at most       *)
(* once, however often get_bus_library is called and however many          *)
(* detectors or generators are constructed.                                *)
C22_DefinitionsReadAtMostOnce == file_reads <= 1

(* The instances get_bus_library has handed out so far.                    *)
ReturnedInstances == UNION {Range(returned[t]) : t \in Threads}

(* C26: the threads that call get_bus_library concurrently all receive     *)
(* the same BusLibrary instance, and only one BusLibrary is ever loaded.   *)
C26_OneInstanceLoadedOnce ==
    /\ Cardinality(ReturnedInstances) <= 1
    /\ library_loads <= 1

----------------------------------------------------------------------------
(* The runtime registers: Register and AsyncRegister over a bus.  A        *)
(* register value is the set of its bit positions that are one, so that    *)
(* fields above bit 31 and the 32-bit mask of write are exact.  The bus    *)
(* is a plain memory word, as in the test suite's mock buses.              *)

(* The values of the members of RuntimeAccessType.                         *)
RuntimeAccessType == [RO |-> "ro", WO |-> "wo", RW |-> "rw", RW1C |-> "rw1c"]

(* A field's access is the plain string or the enum member with that       *)
(* value; BitField.__post_init__ accepts both.                             *)
PlainAccess(value) == [value |-> value, member |-> FALSE]
MemberAccess(value) == [value |-> value, member |-> TRUE]

(* str(field.access): the string itself, or Enum.__str__ of the member     *)
(* (class name, dot, member name).                                         *)
str(access) ==
    IF access.member
    THEN CASE access.value = "ro" -> "RuntimeAccessType.RO"
           [] access.value = "wo" -> "RuntimeAccessType.WO"
           [] access.value = "rw" -> "RuntimeAccessType.RW"
           [] OTHER -> "RuntimeAccessType.RW1C"
    ELSE access.value

BitField(name, offset, width, access) ==
    [name |-> name, offset |-> offset, width |-> width, access |-> access]

(* BitField.mask, as the set of the field's bit positions.                 *)
mask(field) == field.offset..(field.offset + field.width - 1)

max_value(field) == 2^field.width - 1

(* The bits of a non-negative integer.                                     *)
ValueBits(v) == {i \in 0..v : (v \div 2^i) % 2 = 1}

(* (register_value >> offset) & ((1 << width) - 1)                         *)
extract_value(field, register_value) ==
    {b - field.offset : b \in register_value \cap mask(field)}

(* (register_value & ~mask) | ((field_value << offset) & mask)             *)
insert_value(field, register_value, field_value) ==
    (register_value \ mask(field))
        \cup ({field.offset + i : i \in field_value} \cap mask(field))

(* value & 0xFFFFFFFF                                                      *)
Word32(value) == value \cap (0..31)

RECURSIVE build_rmw(_, _, _, _, _)
build_rmw(fields_dict, field_values, current_reg_val, i, reg_val_to_write) ==
    IF i > Len(fields_dict)
    THEN [exc |-> "none", value |-> reg_val_to_write]
    ELSE LET field == fields_dict[i]
         IN IF field.name \in DOMAIN field_values
            THEN IF field_values[field.name] > max_value(field)
                 THEN [exc |-> "ValueError", value |-> {}]
                 ELSE build_rmw(fields_dict, field_values, current_reg_val, i + 1,
                                insert_value(field, reg_val_to_write,
                                             ValueBits(field_values[field.name])))
            ELSE IF str(field.access) = RuntimeAccessType.RW
                 THEN build_rmw(fields_dict, field_values, current_reg_val, i + 1,
                                insert_value(field, reg_val_to_write,
                                             extract_value(field, current_reg_val)))
                 ELSE build_rmw(fields_dict, field_values, current_reg_val, i + 1,
                                reg_val_to_write)

(* _build_rmw_value: the value to write, or the ValueError it raises.      *)
_build_rmw_value(fields_dict, field_values, current_reg_val) ==
    build_rmw(fields_dict, field_values, current_reg_val, 1, {})

FieldNames(fields_dict) == {fields_dict[i].name : i \in 1..Len(fields_dict)}

FieldNamed(fields_dict, name) ==
    fields_dict[CHOOSE i \in 1..Len(fields_dict) : fields_dict[i].name = name]

(* _validate_writable: the exception it raises, or "none".                 *)
_validate_writable(fields_dict, field_name, value) ==
    IF field_name \notin FieldNames(fields_dict) THEN "KeyError"
    ELSE LET field == FieldNamed(fields_dict, field_name)
         IN IF str(field.access) = RuntimeAccessType.RO THEN "ValueError"
            ELSE IF value > max_value(field) THEN "ValueError"
            ELSE "none"

(* What read_word does: it returns the word, or raises.  BusIOError        *)
(* derives from IOError (OSError); the others are unrelated to it.         *)
ReadOutcomes == {"ok", "BusIOError", "OSError", "RuntimeError"}

(* `except BusIOError`, an over-wide handler.                              *)
Catches_OSError(exc) == exc \in {"BusIOError", "OSError"}

(* `except BusIOError`: the exceptions the handler around read() catches.  *)
Catches(exc) == exc = "BusIOError"

(* The register layouts: plain-string access, enum-member access, and a    *)
(* field above bit 31 (BitField allows offset + width up to 64).           *)
Access(value, member) == IF member THEN MemberAccess(value) ELSE PlainAccess(value)

LayoutOf(member) ==
    << BitField("ctrl", 0, 2, Access("rw", member)),
       BitField("mode", 2, 1, Access("rw", member)),
       BitField("flag", 3, 1, Access("rw1c", member)),
       BitField("done", 4, 1, Access("rw1c", member)),
       BitField("stat", 5, 1, Access("ro", member)),
       BitField("cmd", 6, 1, Access("wo", member)) >>

HighLayout ==
    << BitField("lo", 0, 2, PlainAccess("rw")), BitField("hi", 32, 2, PlainAccess("rw")) >>

Layouts == {LayoutOf(FALSE), LayoutOf(TRUE), HighLayout}

AllFieldBits(fields_dict) == UNION {mask(fields_dict[i]) : i \in 1..Len(fields_dict)}

FieldValues == 0..MaxFieldValue

(* The field_values dictionaries handed to write_multiple_fields.          *)
FieldValueDicts(fields_dict) ==
    UNION {[S -> FieldValues] : S \in {T \in SUBSET FieldNames(fields_dict) :
                                           Cardinality(T) \in 1..2}}

IdleTask ==
    [rpc |-> "idle", op |-> "none", field_values |-> <<>>, current_reg_val |-> {},
     read |-> "none", reg_val_to_write |-> {}, writes |-> <<>>, exc |-> "none"]

(* The calls that can be in flight on one register.                        *)
Tasks == 1..MaxTasks

(* Everything but the register state.                                      *)
nonRegisterVars == <<detectVars, parseVars, libraryVars, offsetVars, roundVars>>

NonRegisterIdle == DetectIdle /\ ParseIdle /\ LibraryIdle /\ OffsetIdle /\ RoundIdle

(* One call at a time on a Register or an AsyncRegister.                   *)
InitRegister ==
    /\ reg_class \in {"Register", "AsyncRegister"}
    /\ fields \in Layouts
    /\ memory \in {{}, Word32(AllFieldBits(fields))}
    /\ bus_writes = <<>>
    /\ rtask = [t \in {1} |-> IdleTask]
    /\ NonRegisterIdle

(* Several coroutines calling one AsyncRegister.                           *)
InitAsyncRegister ==
    /\ reg_class = "AsyncRegister"
    /\ fields \in Layouts
    /\ memory \in {{}, Word32(AllFieldBits(fields))}
    /\ bus_writes = <<>>
    /\ rtask = [t \in Tasks |-> IdleTask]
    /\ NonRegisterIdle

(* write_field(field_name, value) up to the read: _validate_writable       *)
(* raises, or current_reg_val = 0 and the bus read is started.             *)
WriteFieldCall(t) ==
    \E field_name \in FieldNames(fields) \cup {"zz"}, value \in FieldValues :
        LET e == _validate_writable(fields, field_name, value)
            fv == [n \in {field_name} |-> value]
        IN /\ t \in DOMAIN rtask
           /\ rtask[t].rpc = "idle"
           /\ rtask' = [rtask EXCEPT ![t] =
                   IF e # "none"
                   THEN [@ EXCEPT !.rpc = "raised", !.op = "write_field",
                                  !.field_values = fv, !.exc = e]
                   ELSE [@ EXCEPT !.rpc = "read", !.op = "write_field",
                                  !.field_values = fv]]
           /\ UNCHANGED <<reg_class, fields, memory, bus_writes>>
           /\ UNCHANGED nonRegisterVars

(* Register.write_multiple_fields(field_values) up to the read: there is   *)
(* no validation, current_reg_val = 0 and the bus read is started.         *)
WriteMultipleFieldsCall(t) ==
    \E fv \in FieldValueDicts(fields) :
        /\ reg_class = "Register"
        /\ t \in DOMAIN rtask
        /\ rtask[t].rpc = "idle"
        /\ rtask' = [rtask EXCEPT ![t] =
                [@ EXCEPT !.rpc = "read", !.op = "write_multiple_fields",
                          !.field_values = fv]]
        /\ UNCHANGED <<reg_class, fields, memory, bus_writes>>
        /\ UNCHANGED nonRegisterVars

(* The bus read completes and the call runs on to its write: the word      *)
(* read, or 0 after a caught exception, goes through _build_rmw_value;     *)
(* an exception that is not caught, or the ValueError of                   *)
(* _build_rmw_value, leaves the call.                                      *)
BusRead(t) ==
    \E outcome \in ReadOutcomes :
        LET cur == IF outcome = "ok" THEN memory ELSE {}
            b == _build_rmw_value(fields, rtask[t].field_values, cur)
        IN /\ t \in DOMAIN rtask
           /\ rtask[t].rpc = "read"
           /\ rtask' = [rtask EXCEPT ![t] =
                   IF outcome # "ok" /\ ~Catches(outcome)
                   THEN [@ EXCEPT !.rpc = "raised", !.read = outcome, !.exc = outcome]
                   ELSE IF b.exc # "none"
                   THEN [@ EXCEPT !.rpc = "raised", !.read = outcome,
                                  !.current_reg_val = cur, !.exc = b.exc]
                   ELSE [@ EXCEPT !.rpc = "write", !.read = outcome,
                                  !.current_reg_val = cur,
                                  !.reg_val_to_write = b.value]]
           /\ UNCHANGED <<reg_class, fields, memory, bus_writes>>
           /\ UNCHANGED nonRegisterVars

(* write(reg_val_to_write): write_word(offset, value & 0xFFFFFFFF).        *)
BusWrite(t) ==
    LET data == Word32(rtask[t].reg_val_to_write)
    IN /\ t \in DOMAIN rtask
       /\ rtask[t].rpc = "write"
       /\ memory' = data
       /\ bus_writes' = Append(bus_writes, data)
       /\ rtask' = [rtask EXCEPT ![t] =
               [@ EXCEPT !.rpc = "done", !.writes = Append(@, data)]]
       /\ UNCHANGED <<reg_class, fields>>
       /\ UNCHANGED nonRegisterVars

NextRegister ==
    \E t \in Tasks :
        \/ WriteFieldCall(t)
        \/ WriteMultipleFieldsCall(t)
        \/ BusRead(t)
        \/ BusWrite(t)

NextAsyncRegister ==
    \E t \in Tasks :
        \/ WriteFieldCall(t)
        \/ BusRead(t)
        \/ BusWrite(t)

SpecRegister == InitRegister /\ [][NextRegister]_vars

SpecAsyncRegister == InitAsyncRegister /\ [][NextAsyncRegister]_vars

----------------------------------------------------------------------------
(* Properties of the runtime registers.                                    *)

(* The calls of write_field that have issued their bus write.              *)
WriteFieldDone(t) ==
    /\ rtask[t].op = "write_field"
    /\ rtask[t].rpc = "done"

(* The field a write_field call names and the value it passes.             *)
TargetName(t) == CHOOSE n \in DOMAIN rtask[t].field_values : TRUE
TargetField(t) == FieldNamed(fields, TargetName(t))
TargetValue(t) == rtask[t].field_values[TargetName(t)]

(* The other fields of the register with the given access.                 *)
OtherFields(t, access) ==
    {g \in Range(fields) : g.name # TargetName(t) /\ g.access.value = access}

(* C23: Register.write_field(f, v) issues exactly one bus write; in its    *)
(* value field f's bits are v, every other read-write field has the bits   *)
(* just read from the bus, and every other write-1-to-clear field is 0.    *)
C23_WriteFieldWord ==
    \A t \in DOMAIN rtask :
        (reg_class = "Register" /\ WriteFieldDone(t) /\ rtask[t].read = "ok") =>
            /\ Len(rtask[t].writes) = 1
            /\ extract_value(TargetField(t), rtask[t].writes[1]) = ValueBits(TargetValue(t))
            /\ \A g \in OtherFields(t, "rw") :
                   extract_value(g, rtask[t].writes[1])
                       = extract_value(g, rtask[t].current_reg_val)
            /\ \A g \in OtherFields(t, "rw1c") :
                   rtask[t].writes[1] \cap mask(g) = {}

(* C24: when the bus read of write_field raises BusIOError the call goes   *)
(* on and writes once, the word being v in field f's bits over a register  *)
(* value of 0; when the read raises anything else, that exception leaves   *)
(* the call and the call writes nothing.                                   *)
C24_OnlyBusIOErrorAbsorbed ==
    \A t \in DOMAIN rtask :
        rtask[t].op = "write_field" =>
            /\ rtask[t].read = "BusIOError" =>
                   /\ rtask[t].rpc \in {"write", "done"}
                   /\ rtask[t].exc = "none"
                   /\ rtask[t].rpc = "done" =>
                          rtask[t].writes
                              = << Word32(insert_value(TargetField(t), {},
                                                       ValueBits(TargetValue(t)))) >>
            /\ rtask[t].read \in ReadOutcomes \ {"ok", "BusIOError"} =>
                   /\ rtask[t].rpc = "raised"
                   /\ rtask[t].exc = rtask[t].read
                   /\ rtask[t].writes = <<>>

(* A write_field whose read raised BusIOError over a non-zero register     *)
(* has written a non-zero word.                                            *)
C24_Witness ==
    \E t \in DOMAIN rtask :
        /\ WriteFieldDone(t)
        /\ rtask[t].read = "BusIOError"
        /\ rtask[t].writes # <<>>
        /\ rtask[t].writes[1] # {}
        /\ bus_writes = rtask[t].writes

(* The calls that were asked to write a read-only field.                   *)
TargetsReadOnly(t) ==
    /\ rtask[t].op # "none"
    /\ \E n \in DOMAIN rtask[t].field_values :
           /\ n \in FieldNames(fields)
           /\ FieldNamed(fields, n).access.value = "ro"

(* C29: write_field and write_multiple_fields raise ValueError and issue   *)
(* no bus write when a field they are asked to write is read-only.         *)
C29_ReadOnlyNeverWritten ==
    \A t \in DOMAIN rtask :
        TargetsReadOnly(t) =>
            /\ rtask[t].rpc = "raised"
            /\ rtask[t].exc = "ValueError"
            /\ rtask[t].writes = <<>>

(* C30: when two AsyncRegister.write_field calls on different read-write   *)
(* fields have both completed, each field holds the value written to it.   *)
C30_BothWritesTakeEffect ==
    \A t1, t2 \in DOMAIN rtask :
        (/\ reg_class = "AsyncRegister"
         /\ t1 # t2
         /\ WriteFieldDone(t1) /\ WriteFieldDone(t2)
         /\ rtask[t1].read = "ok" /\ rtask[t2].read = "ok"
         /\ TargetName(t1) # TargetName(t2)
         /\ TargetField(t1).access.value = "rw"
         /\ TargetField(t2).access.value = "rw") =>
            /\ extract_value(TargetField(t1), memory) = ValueBits(TargetValue(t1))
            /\ extract_value(TargetField(t2), memory) = ValueBits(TargetValue(t2))

----------------------------------------------------------------------------
(* The memory-map parser's register list: _parse_registers over plain      *)
(* register entries and reserved gaps.  An entry is a dictionary; a key    *)
(* it lacks is absent from the record.                                     *)

(* dict.get(key): the value in a one-element tuple, or the empty tuple     *)
(* for None.                                                               *)
Get(reg_data, key) == IF key \in DOMAIN reg_data THEN <<reg_data[key]>> ELSE <<>>

(* `a or b` on optional integers: a when it is truthy (neither None nor    *)
(* 0), b otherwise.                                                        *)
Or(a, b) == IF a # <<>> /\ a[1] # 0 THEN a ELSE b

(* dict.get(key, default)                                                  *)
GetOr(reg_data, key, default) == IF key \in DOMAIN reg_data THEN reg_data[key] ELSE default

ReservedEntries == {[reserved |-> 8]}

Optional(key, values) == {<<>>} \cup {<<[k |-> key, v |-> v]>> : v \in values}

(* The record with the keys the given options carry.                       *)
EntryOf(options) ==
    LET present == {i \in 1..Len(options) : options[i] # <<>>}
        keys == {options[i][1].k : i \in present}
    IN [key \in keys |->
           LET i == CHOOSE j \in present : options[j][1].k = key
           IN options[i][1].v]

(* Register entries: size, addressOffset and offset are each given or     *)
(* left out.                                                               *)
RegisterEntries ==
    {EntryOf(<<s, a, o>>) :
        s \in Optional("size", {16}),
        a \in Optional("addressOffset", {0, 12}),
        o \in Optional("offset", {0, 8})}

EntryLists ==
    UNION {[1..n -> ReservedEntries \cup RegisterEntries] : n \in 1..MaxEntries}

(* Everything but the state of _parse_registers.                           *)
nonOffsetVars == <<detectVars, parseVars, libraryVars, registerVars, roundVars>>

InitOffsets ==
    /\ reg_entries \in EntryLists
    /\ reg_idx = 1
    /\ current_offset = 0
    /\ registers = <<>>
    /\ DetectIdle /\ ParseIdle /\ LibraryIdle /\ RegisterIdle /\ RoundIdle

(* One iteration of the loop on a reserved entry.                          *)
SkipReserved ==
    LET reg_data == reg_entries[reg_idx]
    IN /\ reg_idx \in 1..Len(reg_entries)
       /\ "reserved" \in DOMAIN reg_data
       /\ current_offset' = current_offset + reg_data.reserved
       /\ reg_idx' = reg_idx + 1
       /\ UNCHANGED <<reg_entries, registers>>
       /\ UNCHANGED nonOffsetVars

(* One iteration of the loop on a register entry.                          *)
ParseRegister ==
    LET reg_data == reg_entries[reg_idx]
        given == Or(Get(reg_data, "addressOffset"), Get(reg_data, "offset"))
        address_offset == IF given = <<>> THEN current_offset ELSE given[1]
        size == GetOr(reg_data, "size", 32)
    IN /\ reg_idx \in 1..Len(reg_entries)
       /\ "reserved" \notin DOMAIN reg_data
       /\ registers' = Append(registers,
                              [entry |-> reg_idx, address_offset |-> address_offset,
                               size |-> size])
       /\ current_offset' = address_offset + (size \div 8)
       /\ reg_idx' = reg_idx + 1
       /\ UNCHANGED reg_entries
       /\ UNCHANGED nonOffsetVars

NextOffsets == SkipReserved \/ ParseRegister

SpecOffsets == InitOffsets /\ [][NextOffsets]_vars

----------------------------------------------------------------------------
(* Properties of the register offsets.                                     *)

(* The offsets an entry gives explicitly.                                  *)
ExplicitOffsets(reg_data) ==
    {reg_data[key] : key \in DOMAIN reg_data \cap {"addressOffset", "offset"}}

RECURSIVE ReservedBytes(_, _)
(* The reserved bytes declared by the entries with the given indices.      *)
ReservedBytes(entries, indices) ==
    IF indices = {} THEN 0
    ELSE LET i == CHOOSE j \in indices : TRUE
         IN (IF "reserved" \in DOMAIN entries[i] THEN entries[i].reserved ELSE 0)
                + ReservedBytes(entries, indices \ {i})

(* The running offset at the k-th parsed register: 0 plus the reserved     *)
(* bytes before the first register; after that the previous register's     *)
(* offset plus its size in bytes plus the reserved bytes in between.       *)
RunningOffset(k) ==
    IF k = 1
    THEN ReservedBytes(reg_entries, 1..(registers[1].entry - 1))
    ELSE registers[k - 1].address_offset + (registers[k - 1].size \div 8)
             + ReservedBytes(reg_entries,
                             (registers[k - 1].entry + 1)..(registers[k].entry - 1))

(* C25: each parsed register's address_offset is its explicit              *)
(* addressOffset or offset when one is given, and the running offset       *)
(* otherwise.                                                              *)
C25_ExplicitOrRunningOffset ==
    \A k \in 1..Len(registers) :
        LET reg_data == reg_entries[registers[k].entry]
        IN IF ExplicitOffsets(reg_data) # {}
           THEN registers[k].address_offset \in ExplicitOffsets(reg_data)
           ELSE registers[k].address_offset = RunningOffset(k)

----------------------------------------------------------------------------
(* The round trip: a VHDL text is parsed, the header of its module is      *)
(* regenerated by IpCoreProjectGenerator.generate_core, and the            *)
(* regenerated text is parsed again.                                       *)

(* The declarations whose width is numeric.                                *)
NumericItems == {item \in VhdlItemPool : item.shape \in {"scalar", "vector"}}

PositionDigits == <<"1", "2", "3", "4", "5", "6", "7", "8", "9">>

(* The i-th declaration, its name written in upper or in lower case.       *)
NamedItem(item, upper, i) ==
    [name |-> <<IF upper THEN "P" ELSE "p", PositionDigits[i]>>,
     dir |-> item.dir, base |-> item.base, shape |-> item.shape,
     hi |-> item.hi, lo |-> item.lo]

RoundTripTexts ==
    { [kind |-> "vhdl", header |-> TRUE, generic |-> FALSE, closing |-> c,
       items |-> [i \in 1..Len(it) |-> NamedItem(it[i][1], it[i][2], i)]] :
         c \in {"named", "bare"}, it \in SeqsUpTo(NumericItems \X BOOLEAN, MaxItems) }

(* _prepare_user_ports: per port the lower-cased name, the direction and   *)
(* the VHDL type, std_logic for width 1, std_logic_vector(width-1 downto   *)
(* 0) for another number, std_logic_vector(<width>-1 downto 0) for a       *)
(* parameter name.  The values of PortDirection are lower case already.    *)
_prepare_user_ports(ip_core) ==
    [i \in 1..Len(ip_core.ports) |->
        LET port == ip_core.ports[i]
        IN [name |-> Lower(port.name),
            direction |-> port.direction,
            type |-> IF port.width \notin Int
                     THEN [base |-> std_logic_vector, shape |-> "symbolic", hi |-> 1, lo |-> 0]
                     ELSE IF port.width = 1
                     THEN [base |-> std_logic, shape |-> "scalar", hi |-> 0, lo |-> 0]
                     ELSE [base |-> std_logic_vector, shape |-> "vector",
                           hi |-> port.width - 1, lo |-> 0]]]

(* The core template: "entity <name>_core is port ( ... ); end entity      *)
(* <name>_core;" with one declaration "<name> : <direction> <type>" per    *)
(* entry of user_ports, in order.                                          *)
core_vhdl(context_user_ports) ==
    [kind |-> "vhdl", header |-> TRUE, generic |-> FALSE, closing |-> "named",
     items |-> [i \in 1..Len(context_user_ports) |->
                   LET u == context_user_ports[i]
                   IN [name |-> u.name, dir |-> u.direction, base |-> u.type.base,
                       shape |-> u.type.shape, hi |-> u.type.hi, lo |-> u.type.lo]]]

(* generate_core(ip_core)                                                  *)
generate_core(ip_core) == core_vhdl(_prepare_user_ports(ip_core))

InitRoundTrip ==
    /\ text \in RoundTripTexts
    /\ lang = "vhdl"
    /\ ppc = "start"
    /\ tiers = <<>>
    /\ result = NoModule
    /\ raised = NoExc
    /\ first_parse = NoModule
    /\ DetectIdle /\ LibraryIdle /\ RegisterIdle /\ OffsetIdle

(* The first parse has produced a module: its header is regenerated and    *)
(* handed to parse_text.                                                   *)
Regenerate ==
    /\ lang = "vhdl"
    /\ ppc = "done"
    /\ result # NoModule
    /\ first_parse = NoModule
    /\ first_parse' = result
    /\ text' = generate_core(result)
    /\ ppc' = "start"
    /\ tiers' = <<>>
    /\ result' = NoModule
    /\ UNCHANGED <<lang, raised>>
    /\ UNCHANGED <<detectVars, libraryVars, registerVars, offsetVars>>

NextRoundTrip == VhdlGrammarTier \/ VhdlFallbackTier \/ Regenerate

SpecRoundTrip == InitRoundTrip /\ [][NextRoundTrip]_vars

----------------------------------------------------------------------------
(* Properties of the round trip.                                           *)

(* A module's ports as a set, by name, direction and width.                *)
PortSet(module) == {<<q.name, q.direction, q.width>> : q \in Range(module.ports)}

(* The regenerated header has been parsed.                                 *)
ReparseDone == first_parse # NoModule /\ ppc = "done"

(* C21: parsing a module with numeric widths, regenerating its header      *)
(* from the parsed record and parsing that header gives the ports of the   *)
(* first parse, by name, direction and width.                              *)
C21_ReparseSamePorts ==
    ReparseDone =>
        /\ result # NoModule
        /\ PortSet(result) = PortSet(first_parse)


====
